---- MODULE Spec2Model ----
(***************************************************************************)
(* A model of the accelerated-arrays image engine:                         *)
(*   - the CPU image (src/src/cpu_image.cpp): addressing, get/set and the  *)
(*     border policy applyBorder;                                          *)
(*   - the OpenGL wrappers (src/src/opengl/adapters.cpp): Texture,         *)
(*     FrameBuffer, GlslProgram, GlslFragmentShader, GlslPipeline, Binder; *)
(*   - the read-back adapter (src/src/opengl/read_adapters.cpp).           *)
(* Each component has its own specification over the shared variables; a   *)
(* component's variables keep their initial value under the others.        *)
(***************************************************************************)
EXTENDS Integers, Sequences, FiniteSets, Bags, TLC

VARIABLES
    border,     \* applyBorder: the coordinates, the image size, the mode, the result
    cpuImage,   \* the CPU image: width, height, channels, bytesPerChannel, data
    cpuShadow,  \* ghost: the value last set at each (x, y, channel)
    cpuLast,    \* ghost: the last get/set call, with the data before it
    cpuOps,     \* number of get/set calls made
    gl,         \* the graphics context
    objs,       \* the GPU wrappers created, by slot
    life,       \* ghost: per wrapper, its destroy() calls, leak warnings, deletes
    scope,      \* ghost: the wrapper operation that ran last, and on what
    env,        \* the build, the Processor's kind, the indeterminate byte
    image,      \* the GPU image read back
    adapter,    \* the Adapter of createReadAdpater and its pipeline
    queue,      \* the Processor: units of work enqueued and not yet run
    reads,      \* the invocations of the read function: output buffer, future
    aborted     \* an assert of the read-back path fired

borderVars == <<border>>
cpuVars == <<cpuImage, cpuShadow, cpuLast, cpuOps>>
lifeVars == <<objs, life, scope>>
readVars == <<env, image, adapter, queue, reads, aborted>>

vars == <<border, cpuImage, cpuShadow, cpuLast, cpuOps, gl, objs, life, scope,
          env, image, adapter, queue, reads, aborted>>

(***************************************************************************)
(* Bounds of the model                                                     *)
(***************************************************************************)
MaxCoord == 6
MaxBorderSize == 3
MaxBorderCalls == 2
MaxCpuWidth == 2
MaxCpuHeight == 2
MaxCpuChannels == 2
MaxCpuOps == 2
MaxObjects == 2
MaxDestroyCalls == 2
MaxWidth == 5
MaxHeight == 2
\* writeRaw and read calls made by the client: on a Processor that runs its
\* units in order, and on one that runs transfers and queued functions on
\* separate threads
MaxCalls == 3
MaxSeparateCalls == 2


(***************************************************************************)
(* Border policy (cpu_image.cpp)                                           *)
(***************************************************************************)
BorderModes == {"ZERO", "MIRROR", "REPEAT", "WRAP", "UNDEFINED"}

\* The result of applyBorder1D: the rewritten coordinate, the returned bool,
\* and whether an assert fired.
BorderResult(i, valid, fatal) == [i |-> i, valid |-> valid, fatal |-> fatal]

\* reflection about the edge of the first and last pixel, not their centres
mirrorCoordinateEdge(i, size) ==
    IF i < 0 THEN -i - 1 ELSE 2 * size - 1 - i

mirrorCoordinate(i, size) ==
    IF i < 0 THEN -i ELSE size - 1 - (i - (size - 1))

\* a clamp to [0, size]
repeatCoordinateToSize(i, size) ==
    IF i < 0 THEN 0 ELSE size

repeatCoordinate(i, size) ==
    IF i < 0 THEN 0 ELSE size - 1

\* i < 0: -i % size is a remainder of positive operands, as in C++
wrapCoordinate(i, size) ==
    IF i < 0 THEN size - ((-i) % size) ELSE i % size

applyBorder1D(i, size, mode) ==
    IF i >= 0 /\ i < size THEN BorderResult(i, TRUE, FALSE)
    ELSE CASE mode = "ZERO" -> BorderResult(i, FALSE, FALSE)
           [] mode = "MIRROR" ->
                LET m == mirrorCoordinate(i, size)
                IN  BorderResult(m, TRUE, ~(m >= 0 /\ m < size))
           [] mode = "REPEAT" -> BorderResult(repeatCoordinate(i, size), TRUE, FALSE)
           [] mode = "WRAP" -> BorderResult(wrapCoordinate(i, size), TRUE, FALSE)
           [] OTHER -> BorderResult(i, FALSE, TRUE)

\* the x axis alone decides
applyBorderXOnly(x, y, width, height, mode) ==
    LET rx == applyBorder1D(x, width, mode)
        ry == applyBorder1D(y, height, mode)
    IN  [x |-> rx.i, y |-> ry.i, valid |-> rx.valid /\ ~rx.fatal, fatal |-> rx.fatal]

\* Image::applyBorder: x first; y is only evaluated when x gave a valid sample
applyBorder(x, y, width, height, mode) ==
    LET rx == applyBorder1D(x, width, mode)
        ry == applyBorder1D(y, height, mode)
    IN  IF rx.fatal THEN [x |-> rx.i, y |-> y, valid |-> FALSE, fatal |-> TRUE]
        ELSE IF ~rx.valid THEN [x |-> rx.i, y |-> y, valid |-> FALSE, fatal |-> FALSE]
        ELSE [x |-> rx.i, y |-> ry.i, valid |-> ry.valid /\ ~ry.fatal, fatal |-> ry.fatal]

BorderIdle ==
    [x |-> 0, y |-> 0, x0 |-> 0, y0 |-> 0, width |-> 1, height |-> 1,
     mode |-> "ZERO", valid |-> FALSE, fatal |-> FALSE, calls |-> 0]

BorderInit ==
    \E x, y \in -MaxCoord..MaxCoord, w, h \in 1..MaxBorderSize, m \in BorderModes :
        border = [x |-> x, y |-> y, x0 |-> x, y0 |-> y, width |-> w, height |-> h,
                  mode |-> m, valid |-> FALSE, fatal |-> FALSE, calls |-> 0]

\* One call image.applyBorder(x, y, mode) on the caller's x and y
ApplyBorder ==
    /\ ~border.fatal
    /\ border.calls < MaxBorderCalls
    /\ LET r == applyBorder(border.x, border.y, border.width, border.height, border.mode)
       IN  border' = [border EXCEPT !.x = r.x, !.y = r.y, !.valid = r.valid,
                                    !.fatal = r.fatal, !.calls = @ + 1]
    /\ UNCHANGED <<cpuVars, gl, lifeVars, readVars>>

(***************************************************************************)
(* Element types: the size in bytes of one channel value                   *)
(***************************************************************************)
DataTypes == {"UINT8", "UINT16"}

bytesPerChannel(dataType) == IF dataType = "UINT8" THEN 1 ELSE 2

\* Image::size(): the byte size of the whole image
imageSize(img) == img.width * img.height * img.channels * bytesPerChannel(img.dataType)

\* n bytes of caller data, all different: seed, seed + 1, ... as std::uint8_t
Pattern(seed, n) == [i \in 1..n |-> (seed + i - 1) % 256]

Zeros(n) == [i \in 1..n |-> 0]

(***************************************************************************)
(* CPU image (cpu_image.cpp). data[o + 1] is the byte at offset o.         *)
(***************************************************************************)
\* index without the element size: (y * width + x) * channels
indexInElements(img, x, y) ==
    (y * img.width + x) * img.channels

index(img, x, y) ==
    (y * img.width + x) * img.channels * bytesPerChannel(img.dataType)

\* the channel offset without the element size: index(x, y) + channel
channelOffsetInElements(img, x, y, channel) ==
    index(img, x, y) + channel

\* offset = index(x, y) + channel * bpc, in get and set
channelOffset(img, x, y, channel) ==
    index(img, x, y) + channel * bytesPerChannel(img.dataType)

\* get(x, y, channel, targetArray): the bpc bytes copied to targetArray
getChannel(img, x, y, channel) ==
    LET bpc == bytesPerChannel(img.dataType)
        offset == channelOffset(img, x, y, channel)
    IN  [i \in 1..bpc |-> img.data[(i - 1) + offset + 1]]

\* set(x, y, channel, srcArray): data[i + offset] = srcArray[i], i < bpc
setChannel(img, x, y, channel, srcArray) ==
    LET bpc == bytesPerChannel(img.dataType)
        offset == channelOffset(img, x, y, channel)
    IN  [img EXCEPT !.data =
            [o \in DOMAIN img.data |->
                IF (o - 1) >= offset /\ (o - 1) < offset + bpc
                THEN srcArray[(o - 1) - offset + 1]
                ELSE img.data[o]]]

\* get(x, y, targetArray): channel i goes to targetArray + i * bpc
RECURSIVE getPixelFrom(_, _, _, _)
getPixelFrom(img, x, y, i) ==
    IF i >= img.channels THEN <<>>
    ELSE getChannel(img, x, y, i) \o getPixelFrom(img, x, y, i + 1)

getPixel(img, x, y) == getPixelFrom(img, x, y, 0)

\* set(x, y, srcArray): channel i comes from srcArray + i * bpc
RECURSIVE setPixelFrom(_, _, _, _, _)
setPixelFrom(img, x, y, srcArray, i) ==
    IF i >= img.channels THEN img
    ELSE LET bpc == bytesPerChannel(img.dataType)
         IN  setPixelFrom(
                setChannel(img, x, y, i, SubSeq(srcArray, i * bpc + 1, (i + 1) * bpc)),
                x, y, srcArray, i + 1)

setPixel(img, x, y, srcArray) == setPixelFrom(img, x, y, srcArray, 0)

\* ImageImplementation(w, h, channels, dtype): data.resize(size()) zero-fills
newCpuImage(w, h, channels, dataType) ==
    LET spec == [width |-> w, height |-> h, channels |-> channels, dataType |-> dataType]
    IN  [width |-> w, height |-> h, channels |-> channels, dataType |-> dataType,
         data |-> Zeros(imageSize(spec))]

\* The in-bounds (x, y, channel) triples of an image
Positions(img) ==
    (0..img.width - 1) \X (0..img.height - 1) \X (0..img.channels - 1)

\* The caller's value in the n-th call: its bytes differ from every other call's
CallSeed(n) == 16 * (n + 1)

NoCall == [op |-> "none", x |-> 0, y |-> 0, channel |-> 0, value |-> <<>>,
           before |-> <<>>, result |-> <<>>, future |-> "none"]

CpuIdle ==
    /\ cpuImage = newCpuImage(1, 1, 1, "UINT8")
    /\ cpuShadow = [t \in Positions(newCpuImage(1, 1, 1, "UINT8")) |-> <<>>]
    /\ cpuLast = NoCall
    /\ cpuOps = 0

CpuInit ==
    /\ \E w \in 1..MaxCpuWidth, h \in 1..MaxCpuHeight, c \in 1..MaxCpuChannels,
          d \in DataTypes :
            cpuImage = newCpuImage(w, h, c, d)
    /\ cpuShadow = [t \in Positions(cpuImage) |-> <<>>]
    /\ cpuLast = NoCall
    /\ cpuOps = 0

\* image.set(x, y, channel, v) with in-bounds x, y and channel
CpuSet ==
    /\ cpuOps < MaxCpuOps
    /\ \E t \in Positions(cpuImage) :
        LET v == Pattern(CallSeed(cpuOps), bytesPerChannel(cpuImage.dataType))
        IN  /\ cpuImage' = setChannel(cpuImage, t[1], t[2], t[3], v)
            /\ cpuShadow' = [cpuShadow EXCEPT ![t] = v]
            /\ cpuLast' = [op |-> "set", x |-> t[1], y |-> t[2], channel |-> t[3],
                           value |-> v, before |-> cpuImage.data, result |-> <<>>,
                           future |-> "none"]
    /\ cpuOps' = cpuOps + 1
    /\ UNCHANGED <<border, gl, lifeVars, readVars>>

\* image.set(x, y, v) on all channels, with in-bounds x and y
CpuSetPixel ==
    /\ cpuOps < MaxCpuOps
    /\ \E x \in 0..cpuImage.width - 1, y \in 0..cpuImage.height - 1 :
        LET bpc == bytesPerChannel(cpuImage.dataType)
            v == Pattern(CallSeed(cpuOps), cpuImage.channels * bpc)
        IN  /\ cpuImage' = setPixel(cpuImage, x, y, v)
            /\ cpuShadow' = [t \in DOMAIN cpuShadow |->
                    IF t[1] = x /\ t[2] = y
                    THEN SubSeq(v, t[3] * bpc + 1, (t[3] + 1) * bpc)
                    ELSE cpuShadow[t]]
            /\ cpuLast' = [op |-> "setPixel", x |-> x, y |-> y, channel |-> 0,
                           value |-> v, before |-> cpuImage.data, result |-> <<>>,
                           future |-> "none"]
    /\ cpuOps' = cpuOps + 1
    /\ UNCHANGED <<border, gl, lifeVars, readVars>>

\* image.get(x, y, channel, out)
CpuGet ==
    /\ cpuOps < MaxCpuOps
    /\ \E t \in Positions(cpuImage) :
        cpuLast' = [op |-> "get", x |-> t[1], y |-> t[2], channel |-> t[3],
                    value |-> <<>>, before |-> cpuImage.data,
                    result |-> getChannel(cpuImage, t[1], t[2], t[3]),
                    future |-> "none"]
    /\ cpuOps' = cpuOps + 1
    /\ UNCHANGED <<border, cpuImage, cpuShadow, gl, lifeVars, readVars>>

\* image.get(x, y, out) on all channels
CpuGetPixel ==
    /\ cpuOps < MaxCpuOps
    /\ \E x \in 0..cpuImage.width - 1, y \in 0..cpuImage.height - 1 :
        cpuLast' = [op |-> "getPixel", x |-> x, y |-> y, channel |-> 0,
                    value |-> <<>>, before |-> cpuImage.data,
                    result |-> getPixel(cpuImage, x, y), future |-> "none"]
    /\ cpuOps' = cpuOps + 1
    /\ UNCHANGED <<border, cpuImage, cpuShadow, gl, lifeVars, readVars>>

\* a copy that stops one byte short
memcpyAllButLast(dest, src, n) ==
    [i \in DOMAIN dest |-> IF i <= n - 1 THEN src[i] ELSE dest[i]]

\* std::memcpy(dest, src, n): dest afterwards
memcpy(dest, src, n) ==
    [i \in DOMAIN dest |-> IF i <= n THEN src[i] ELSE dest[i]]

\* Future::instantlyResolved()
instantlyResolved == "resolved"

\* readRaw(outputData): the caller's buffer afterwards, and the future
readRaw(img, outputData) ==
    [out |-> memcpy(outputData, img.data, imageSize(img)),
     future |-> instantlyResolved]

\* writeRaw(inputData): the image afterwards, and the future
writeRaw(img, inputData) ==
    [img |-> [img EXCEPT !.data = memcpy(img.data, inputData, imageSize(img))],
     future |-> instantlyResolved]

\* image.writeRaw(b) with a buffer of size() bytes
CpuWriteRaw ==
    /\ cpuOps < MaxCpuOps
    /\ LET bpc == bytesPerChannel(cpuImage.dataType)
           b == Pattern(CallSeed(cpuOps), imageSize(cpuImage))
           w == writeRaw(cpuImage, b)
       IN  /\ cpuImage' = w.img
           /\ cpuShadow' = [t \in DOMAIN cpuShadow |->
                    SubSeq(b, ((t[2] * cpuImage.width + t[1]) * cpuImage.channels
                                    + t[3]) * bpc + 1,
                              ((t[2] * cpuImage.width + t[1]) * cpuImage.channels
                                    + t[3] + 1) * bpc)]
           /\ cpuLast' = [NoCall EXCEPT !.op = "writeRaw", !.value = b,
                                        !.before = cpuImage.data,
                                        !.future = w.future]
    /\ cpuOps' = cpuOps + 1
    /\ UNCHANGED <<border, gl, lifeVars, readVars>>

\* image.readRaw(out) with a buffer of size() bytes; value keeps the buffer
\* of a writeRaw that was the call before
CpuReadRaw ==
    /\ cpuOps < MaxCpuOps
    /\ LET r == readRaw(cpuImage, [i \in 1..imageSize(cpuImage) |-> 255])
       IN  cpuLast' = [NoCall EXCEPT
                        !.op = "readRaw",
                        !.value = IF cpuLast.op = "writeRaw" THEN cpuLast.value
                                  ELSE <<>>,
                        !.before = cpuImage.data,
                        !.result = r.out,
                        !.future = r.future]
    /\ cpuOps' = cpuOps + 1
    /\ UNCHANGED <<border, cpuImage, cpuShadow, gl, lifeVars, readVars>>

(***************************************************************************)
(* The graphics context (adapters.cpp): what the GL calls of the wrappers  *)
(* read and change. Names are generated per object type, starting at 1; 0  *)
(* is "no object". store[id] is the image of texture id, attachment[id]    *)
(* the texture attached to framebuffer id, shader[id] the fragment shader  *)
(* linked into program id. log is the sequence of                          *)
(* bind/unbind/draw calls of the handler being run, deleted the bag of    *)
(* handles the glDelete* calls made so far were given.                     *)
(***************************************************************************)
TextureSlots == 0..1

GlDefault ==
    [program |-> 0, framebuffer |-> 0, activeTexture |-> 0,
     textureAt |-> [slot \in TextureSlots |-> 0],
     arrayBuffer |-> 0, elementArrayBuffer |-> 0, vertexAttrib |-> FALSE,
     depthTest |-> FALSE, blend |-> FALSE,
     viewport |-> <<0, 0>>, outSize |-> <<0, 0>>, sampler |-> 0,
     generated |-> [texture |-> 0, framebuffer |-> 0, program |-> 0, buffer |-> 0],
     store |-> <<>>, attachment |-> <<>>, shader |-> <<>>,
     deleted |-> EmptyBag, log |-> <<>>,
     lastDraw |-> [program |-> 0, framebuffer |-> 0, outSize |-> <<0, 0>>,
                   viewport |-> <<0, 0>>, sampler |-> 0, activeTexture |-> 0,
                   textureAt |-> [slot \in TextureSlots |-> 0],
                   depthTest |-> FALSE, blend |-> FALSE]]

GlLog(g, call, kind, name) == [g EXCEPT !.log = Append(@, <<call, kind, name>>)]

\* A fragment shader body: "repack" is the one createFunction generates for
\* ratio = targetChannels / channels; "none" is any other body
NoShader == [kind |-> "none", ratio |-> 0, channels |-> 0]

NoStorage == [width |-> 0, height |-> 0, channels |-> 0, dataType |-> "UINT8", data |-> <<>>]

\* glGenTextures, glGenFramebuffers, glGenBuffers, glCreateProgram: a new name
glGen(g, type) ==
    LET g1 == [g EXCEPT !.generated[type] = @ + 1]
    IN  CASE type = "texture" -> [g1 EXCEPT !.store = Append(@, NoStorage)]
          [] type = "framebuffer" -> [g1 EXCEPT !.attachment = Append(@, 0)]
          [] type = "program" -> [g1 EXCEPT !.shader = Append(@, NoShader)]
          [] OTHER -> g1

glLastName(g, type) == g.generated[type]

\* glDeleteTextures, glDeleteFramebuffers, glDeleteBuffers, glDeleteProgram
glDelete(g, type, name) ==
    [g EXCEPT !.deleted = @ (+) SetToBag({<<type, name>>})]

\* glTexImage2D on the texture bound at the active slot; pixels = <<>> is a
\* null pointer: the storage is allocated with indeterminate content
glTexImage2D(g, w, h, spec, pixels, garbage) ==
    LET id == g.textureAt[g.activeTexture]
        img == [width |-> w, height |-> h, channels |-> spec.channels,
                dataType |-> spec.dataType]
    IN  IF id = 0 THEN g
        ELSE [g EXCEPT !.store[id] =
                [width |-> w, height |-> h, channels |-> spec.channels,
                 dataType |-> spec.dataType,
                 data |-> IF pixels = <<>>
                          THEN [i \in 1..imageSize(img) |-> garbage]
                          ELSE pixels]]

\* glFramebufferTexture2D on the bound framebuffer
glFramebufferTexture2D(g, texture) ==
    IF g.framebuffer = 0 THEN g ELSE [g EXCEPT !.attachment[g.framebuffer] = texture]

\* What a destructor chain did: the warnings logged, the context, an abort
Finalized(warnings, g) == [warnings |-> warnings, gl |-> g, fatal |-> FALSE]

(***************************************************************************)
(* TextureImplementation                                                   *)
(***************************************************************************)
TextureBind(g, t) ==
    [g EXCEPT !.textureAt[g.activeTexture] = t.id]

TextureUnbind(g, t) ==
    [g EXCEPT !.textureAt[g.activeTexture] = 0]

TextureDestroy(g, t) ==
    [obj |-> [t EXCEPT !.id = 0],
     gl |-> IF t.id # 0 THEN glDelete(g, "texture", t.id) ELSE g]

\* ~TextureImplementation
TextureFinalize(g, t) ==
    Finalized(IF t.id # 0 THEN <<"leaking GL texture">> ELSE <<>>, g)

(***************************************************************************)
(* FrameBufferImplementation                                               *)
(***************************************************************************)
FrameBufferBind(g, fb) == [g EXCEPT !.framebuffer = fb.id]

FrameBufferUnbind(g, fb) == [g EXCEPT !.framebuffer = 0]

FrameBufferDestroy(g, fb) ==
    LET g1 == IF fb.id # 0 THEN glDelete(g, "framebuffer", fb.id) ELSE g
        td == TextureDestroy(g1, fb.texture)
    IN  [obj |-> [fb EXCEPT !.id = 0, !.texture = td.obj], gl |-> td.gl]

\* ~FrameBufferImplementation, then the destructor of its member texture
FrameBufferFinalize(g, fb) ==
    LET own == Finalized(IF fb.id # 0 THEN <<"leaking frame buffer">> ELSE <<>>, g)
        member == TextureFinalize(own.gl, fb.texture)
    IN  [member EXCEPT !.warnings = own.warnings \o @, !.fatal = own.fatal \/ @]

\* setViewport: glViewport(0, 0, width, height)
FrameBufferSetViewport(g, fb) == [g EXCEPT !.viewport = <<fb.width, fb.height>>]

(***************************************************************************)
(* GlslProgramImplementation                                               *)
(***************************************************************************)
GlslProgramBind(g, p) == [g EXCEPT !.program = p.program]

GlslProgramUnbind(g, p) == [g EXCEPT !.program = 0]

GlslProgramDestroy(g, p) ==
    IF p.program # 0
    THEN [obj |-> [p EXCEPT !.program = 0], gl |-> glDelete(g, "program", p.program)]
    ELSE [obj |-> p, gl |-> g]

\* ~GlslProgramImplementation with no check of the handle
GlslProgramFinalizeSilent(g, p) == Finalized(<<>>, g)

GlslProgramFinalize(g, p) ==
    Finalized(IF p.program # 0 THEN <<"leaking GL program">> ELSE <<>>, g)

(***************************************************************************)
(* GlslFragmentShaderImplementation                                        *)
(***************************************************************************)
GlslFragmentShaderBind(g, fs) ==
    LET g1 == GlslProgramBind(g, fs.program)
    IN  [g1 EXCEPT !.arrayBuffer = fs.vertexBuffer,
                   !.elementArrayBuffer = fs.vertexIndexBuffer,
                   !.vertexAttrib = TRUE]

GlslFragmentShaderUnbind(g, fs) ==
    LET g1 == [g EXCEPT !.vertexAttrib = FALSE,
                        !.elementArrayBuffer = 0, !.arrayBuffer = 0]
    IN  GlslProgramUnbind(g1, fs.program)

\* destroy(): vertexBuffer keeps its value after glDeleteBuffers
GlslFragmentShaderDestroy(g, fs) ==
    LET g1 == IF fs.vertexBuffer # 0
              THEN glDelete(glDelete(g, "buffer", fs.vertexBuffer),
                            "buffer", fs.vertexIndexBuffer)
              ELSE g
        pd == GlslProgramDestroy(g1, fs.program)
    IN  [obj |-> [fs EXCEPT !.program = pd.obj], gl |-> pd.gl]

\* no destructor of its own: the destructor of its member program runs
GlslFragmentShaderFinalize(g, fs) == GlslProgramFinalize(g, fs.program)

(***************************************************************************)
(* TextureUniformBinder and GlslPipelineImplementation                     *)
(***************************************************************************)
TextureUniformBind(g, b) ==
    [g EXCEPT !.activeTexture = b.slot,
              !.textureAt[b.slot] = b.textureId,
              !.sampler = b.slot]

\* an unbind that leaves the binder's texture unit the active one
TextureUniformUnbindKeepActive(g, b) ==
    [g EXCEPT !.activeTexture = b.slot, !.textureAt[b.slot] = 0]

TextureUniformUnbind(g, b) ==
    [g EXCEPT !.textureAt[b.slot] = 0, !.activeTexture = 0]

setTextureId(b, id) == [b EXCEPT !.textureId = id]

\* bindTexture(index, textureId): the binder of that index, with the id set
PipelineBindTexture(pl, i, textureId) ==
    [pl EXCEPT !.textureBinders[i + 1] = setTextureId(@, textureId)]

GlslPipelineDestroy(g, pl) ==
    LET d == GlslFragmentShaderDestroy(g, pl.program)
    IN  [obj |-> [pl EXCEPT !.program = d.obj], gl |-> d.gl]

GlslPipelineFinalize(g, pl) == GlslFragmentShaderFinalize(g, pl.program)

(***************************************************************************)
(* Binder and the Binder::Target / Destroyable dispatch                    *)
(***************************************************************************)
\* The name of a target in the call log
TargetName(t) ==
    CASE t.kind = "texture" -> t.id
      [] t.kind = "framebuffer" -> t.id
      [] t.kind = "program" -> t.program
      [] t.kind = "fragmentShader" -> t.program.program
      [] t.kind = "pipeline" -> t.program.program.program
      [] t.kind = "textureUniform" -> t.slot

TargetBind(g, t) ==
    LET g1 == GlLog(g, "bind", t.kind, TargetName(t))
    IN  CASE t.kind = "texture" -> TextureBind(g1, t)
          [] t.kind = "framebuffer" -> FrameBufferBind(g1, t)
          [] t.kind = "program" -> GlslProgramBind(g1, t)
          [] t.kind = "fragmentShader" -> GlslFragmentShaderBind(g1, t)
          [] t.kind = "pipeline" -> GlslFragmentShaderBind(g1, t.program)
          [] t.kind = "textureUniform" -> TextureUniformBind(g1, t)

TargetUnbind(g, t) ==
    LET g1 == GlLog(g, "unbind", t.kind, TargetName(t))
    IN  CASE t.kind = "texture" -> TextureUnbind(g1, t)
          [] t.kind = "framebuffer" -> FrameBufferUnbind(g1, t)
          [] t.kind = "program" -> GlslProgramUnbind(g1, t)
          [] t.kind = "fragmentShader" -> GlslFragmentShaderUnbind(g1, t)
          [] t.kind = "pipeline" -> GlslFragmentShaderUnbind(g1, t.program)
          [] t.kind = "textureUniform" -> TextureUniformUnbind(g1, t)

\* a Binder whose destructor does nothing
BinderLeave(g, t) == g

\* Binder::Binder(target)
BinderCtor(g, t) == TargetBind(g, t)

\* Binder::~Binder()
BinderDtor(g, t) == TargetUnbind(g, t)

Destroy(g, obj) ==
    CASE obj.kind = "texture" -> TextureDestroy(g, obj)
      [] obj.kind = "framebuffer" -> FrameBufferDestroy(g, obj)
      [] obj.kind = "program" -> GlslProgramDestroy(g, obj)
      [] obj.kind = "fragmentShader" -> GlslFragmentShaderDestroy(g, obj)
      [] obj.kind = "pipeline" -> GlslPipelineDestroy(g, obj)

\* The destructor chain of a wrapper
Finalize(g, obj) ==
    CASE obj.kind = "texture" -> TextureFinalize(g, obj)
      [] obj.kind = "framebuffer" -> FrameBufferFinalize(g, obj)
      [] obj.kind = "program" -> GlslProgramFinalize(g, obj)
      [] obj.kind = "fragmentShader" -> GlslFragmentShaderFinalize(g, obj)
      [] obj.kind = "pipeline" -> GlslPipelineFinalize(g, obj)

(***************************************************************************)
(* Drawing: GlFlagSetter, the repack fragment shader, glDrawElements,      *)
(* GlslFragmentShaderImplementation::call, GlslPipelineImplementation::call*)
(***************************************************************************)
\* GlFlagSetter<flag, targetState>(): the original state is kept by the caller
GlFlagSetterCtor(g, flag, targetState) ==
    IF g[flag] # targetState
    THEN GlLog([g EXCEPT ![flag] = targetState],
               IF targetState THEN "enable" ELSE "disable", flag, 0)
    ELSE g

\* a destructor that leaves the flag at the target state
GlFlagSetterKeep(g, flag, targetState, origState) == g

\* ~GlFlagSetter()
GlFlagSetterDtor(g, flag, targetState, origState) ==
    IF origState # targetState
    THEN GlLog([g EXCEPT ![flag] = origState],
               IF origState THEN "enable" ELSE "disable", flag, 0)
    ELSE g

\* texelFetch(u_texture, ivec2(x, y), 0): byte b of channel j; a fetch outside
\* the texture is undefined and gives the indeterminate byte
texelFetch(g, texture, x, y, j, b, garbage) ==
    IF texture = 0 THEN garbage
    ELSE LET t == g.store[texture]
             bpc == bytesPerChannel(t.dataType)
         IN  IF x < 0 \/ x >= t.width \/ y < 0 \/ y >= t.height \/ j >= t.channels
             THEN garbage
             ELSE t.data[((y * t.width + x) * t.channels + j) * bpc + b + 1]

\* ivec2 outCoord = ivec2(v_texCoord / u_outSize), one axis: v_texCoord is
\* the quad's interpolated UV at the centre of pixel p, (p + 0.5) / viewportSize
outCoord(p, viewportSize, outSize) ==
    (2 * p + 1) \div (2 * viewportSize * outSize)

\* The repack shader at output pixel (px, py): byte b of output channel ch.
\* x0 = outCoord.x * ratio; col_i = texelFetch(u_texture, (x0 + i, outCoord.y));
\* outValue[i * channels + j] = col_i[j]
repackFragment(g, sh, px, py, ch, b, garbage) ==
    LET ox == outCoord(px, g.viewport[1], g.outSize[1])
        oy == outCoord(py, g.viewport[2], g.outSize[2])
        x0 == ox * sh.ratio
        i == ch \div sh.channels
        j == ch % sh.channels
    IN  IF i >= sh.ratio THEN garbage
        ELSE texelFetch(g, g.textureAt[g.sampler], x0 + i, oy, j, b, garbage)

\* glDrawElements(GL_TRIANGLES, 6, ...): the full-screen quad runs the active
\* program's fragment shader once per pixel of the viewport, into the texture
\* attached to the bound framebuffer
glDrawElements(g, garbage) ==
    LET g1 == [GlLog(g, "draw", "elements", g.framebuffer) EXCEPT
                !.lastDraw = [program |-> g.program, framebuffer |-> g.framebuffer,
                              outSize |-> g.outSize, viewport |-> g.viewport,
                              sampler |-> g.sampler,
                              activeTexture |-> g.activeTexture,
                              textureAt |-> g.textureAt,
                              depthTest |-> g.depthTest, blend |-> g.blend]]
        target == IF g.framebuffer = 0 THEN 0 ELSE g.attachment[g.framebuffer]
        sh == IF g.program = 0 THEN NoShader ELSE g.shader[g.program]
    IN  IF \/ target = 0 \/ sh.kind # "repack"
           \/ ~g.vertexAttrib \/ g.arrayBuffer = 0 \/ g.elementArrayBuffer = 0
        THEN g1
        ELSE LET t == g.store[target]
                 bpc == bytesPerChannel(t.dataType)
             IN  [g1 EXCEPT !.store[target].data =
                    [o \in DOMAIN t.data |->
                        LET e == (o - 1) \div bpc
                            px == (e \div t.channels) % t.width
                            py == (e \div t.channels) \div t.width
                        IN  IF px < g.viewport[1] /\ py < g.viewport[2]
                            THEN repackFragment(g, sh, px, py, e % t.channels,
                                                (o - 1) % bpc, garbage)
                            ELSE t.data[o]]]

\* GlslFragmentShaderImplementation::call(frameBuffer)
GlslFragmentShaderCall(g, fs, frameBuffer, garbage) ==
    LET origDepth == g.depthTest
        g1 == GlFlagSetterCtor(g, "depthTest", FALSE)
        origBlend == g1.blend
        g2 == GlFlagSetterCtor(g1, "blend", FALSE)
        g3 == BinderCtor(g2, frameBuffer)
        g4 == FrameBufferSetViewport(g3, frameBuffer)
        g5 == glDrawElements(g4, garbage)
        g6 == BinderDtor(g5, frameBuffer)
        g7 == GlFlagSetterDtor(g6, "blend", FALSE, origBlend)
    IN  GlFlagSetterDtor(g7, "depthTest", FALSE, origDepth)

\* a call that sets the output-size uniform to (height, width)
GlslPipelineCallTransposed(g, pl, frameBuffer, garbage) ==
    GlslFragmentShaderCall(
        [g EXCEPT !.outSize = <<frameBuffer.height, frameBuffer.width>>],
        pl.program, frameBuffer, garbage)

\* GlslPipelineImplementation::call(frameBuffer)
GlslPipelineCall(g, pl, frameBuffer, garbage) ==
    GlslFragmentShaderCall(
        [g EXCEPT !.outSize = <<frameBuffer.width, frameBuffer.height>>],
        pl.program, frameBuffer, garbage)

\* FrameBufferImplementation::readPixels: the bytes glReadPixels delivers.
\* Rows of the 4-channel images read here are multiples of 4 bytes, so the
\* default pack alignment adds nothing.
FrameBufferReadPixels(g, fb) ==
    LET g1 == BinderCtor(g, fb)
        texture == IF g1.framebuffer = 0 THEN 0 ELSE g1.attachment[g1.framebuffer]
        pixels == IF texture = 0 THEN <<>> ELSE g1.store[texture].data
    IN  [pixels |-> pixels, gl |-> BinderDtor(g1, fb)]

\* FrameBufferImplementation::writePixels
FrameBufferWritePixels(g, fb, pixels) ==
    LET g1 == BinderCtor(g, fb.texture)
        g2 == glTexImage2D(g1, fb.width, fb.height, fb.spec, pixels, 0)
    IN  BinderDtor(g2, fb.texture)

(***************************************************************************)
(* Constructors of the wrappers. garbage is the indeterminate byte of a    *)
(* texture allocated without data.                                         *)
(***************************************************************************)
TextureCtor(g, w, h, spec, garbage) ==
    LET g1 == glGen(g, "texture")
        t == [kind |-> "texture", id |-> glLastName(g1, "texture")]
        g2 == BinderCtor(g1, t)
        g3 == glTexImage2D(g2, w, h, spec, <<>>, garbage)
    IN  [obj |-> t, gl |-> BinderDtor(g3, t)]

FrameBufferCtor(g, w, h, spec, garbage) ==
    LET tc == TextureCtor(g, w, h, spec, garbage)
        g1 == glGen(tc.gl, "framebuffer")
        fb == [kind |-> "framebuffer", id |-> glLastName(g1, "framebuffer"),
               width |-> w, height |-> h, spec |-> spec, texture |-> tc.obj]
        g2 == BinderCtor(g1, fb)
        g3 == glFramebufferTexture2D(g2, fb.texture.id)
    IN  [obj |-> fb, gl |-> BinderDtor(g3, fb)]

\* createProgram(vs, fs): the fragment shader is linked into the new program
GlslProgramCtor(g, fragmentShader) ==
    LET g1 == glGen(g, "program")
        name == glLastName(g1, "program")
    IN  [obj |-> [kind |-> "program", program |-> name],
         gl |-> [g1 EXCEPT !.shader[name] = fragmentShader]]

\* the vertex and index buffers are bound for the upload and unbound again
GlslFragmentShaderCtor(g, fragmentShader) ==
    LET pc == GlslProgramCtor(g, fragmentShader)
        g1 == glGen(pc.gl, "buffer")
        g2 == glGen(g1, "buffer")
    IN  [obj |-> [kind |-> "fragmentShader",
                  vertexBuffer |-> glLastName(g1, "buffer"),
                  vertexIndexBuffer |-> glLastName(g2, "buffer"),
                  program |-> pc.obj],
         gl |-> [g2 EXCEPT !.arrayBuffer = 0, !.elementArrayBuffer = 0]]

GlslPipelineCtor(g, fragmentMain, nInputs) ==
    LET fc == GlslFragmentShaderCtor(g, fragmentMain)
    IN  [obj |-> [kind |-> "pipeline", program |-> fc.obj,
                  textureBinders |->
                    [i \in 1..nInputs |->
                        [kind |-> "textureUniform", slot |-> i - 1, textureId |-> -1]]],
         gl |-> fc.gl]

WrapperKinds == {"texture", "framebuffer", "program", "fragmentShader", "pipeline"}

\* Texture::create, FrameBuffer::create, GlslProgram::create, ...
Create(g, kind, spec, garbage) ==
    CASE kind = "texture" -> TextureCtor(g, 1, 1, spec, garbage)
      [] kind = "framebuffer" -> FrameBufferCtor(g, 1, 1, spec, garbage)
      [] kind = "program" -> GlslProgramCtor(g, NoShader)
      [] kind = "fragmentShader" -> GlslFragmentShaderCtor(g, NoShader)
      [] kind = "pipeline" -> GlslPipelineCtor(g, NoShader, 1)

(***************************************************************************)
(* Life cycle of the wrappers: create, destroy(), destructor               *)
(***************************************************************************)
GarbageBytes == {0, 255}

NoObject == [kind |-> "none"]

NoLife == [state |-> "none", destroyCalls |-> 0, laterDeletes |-> 0,
           warnings |-> 0, finalizeDeletes |-> 0, fatal |-> FALSE]

\* no wrapper operation has run: op is the operation, kind the wrapper it
\* ran on, input the texture unit of a TextureUniformBinder
NoScope == [op |-> "none", kind |-> "none", input |-> 0]

LifeIdle ==
    /\ objs = [slot \in 1..MaxObjects |-> NoObject]
    /\ life = [slot \in 1..MaxObjects |-> NoLife]
    /\ scope = NoScope

LifeCreate ==
    \E slot \in 1..MaxObjects, kind \in WrapperKinds :
        /\ life[slot].state = "none"
        /\ \A earlier \in 1..(slot - 1) : life[earlier].state # "none"
        /\ LET c == Create([gl EXCEPT !.log = <<>>], kind,
                           [channels |-> 1, dataType |-> "UINT8"], env.garbage)
           IN  /\ gl' = c.gl
               /\ objs' = [objs EXCEPT ![slot] = c.obj]
        /\ life' = [life EXCEPT ![slot].state = "live"]
        /\ UNCHANGED <<scope, border, cpuVars, readVars>>

\* wrapper.destroy()
LifeDestroy ==
    \E slot \in 1..MaxObjects :
        /\ life[slot].state = "live"
        /\ life[slot].destroyCalls < MaxDestroyCalls
        /\ LET d == Destroy([gl EXCEPT !.log = <<>>], objs[slot])
           IN  /\ gl' = d.gl
               /\ objs' = [objs EXCEPT ![slot] = d.obj]
               /\ life' = [life EXCEPT
                    ![slot].destroyCalls = @ + 1,
                    ![slot].laterDeletes =
                        IF life[slot].destroyCalls = 0 THEN @
                        ELSE @ + BagCardinality(d.gl.deleted)
                                    - BagCardinality(gl.deleted)]
        /\ UNCHANGED <<scope, border, cpuVars, readVars>>

\* the owner releases the wrapper: its destructor chain runs
LifeFinalize ==
    \E slot \in 1..MaxObjects :
        /\ life[slot].state = "live"
        /\ LET f == Finalize([gl EXCEPT !.log = <<>>], objs[slot])
           IN  /\ gl' = f.gl
               /\ life' = [life EXCEPT
                    ![slot].state = "finalized",
                    ![slot].warnings = Len(f.warnings),
                    ![slot].finalizeDeletes = BagCardinality(f.gl.deleted)
                                                - BagCardinality(gl.deleted),
                    ![slot].fatal = f.fatal]
        /\ UNCHANGED <<objs, scope, border, cpuVars, readVars>>

(***************************************************************************)
(* The read-back adapter (read_adapters.cpp)                               *)
(***************************************************************************)
\* "rgba": the channels a pixel can have
MaxChannels == 4

Builds == {"desktop", "es"}

\* The Processor: one that runs a unit before enqueue returns; one queue that
\* also carries the GPU images' raw transfers; or a queue of its own next to
\* the one of the raw transfers
Processors == {"instant", "shared", "separate"}

\* createFunction without the rounding up
targetWidthFloor(width, channels, targetChannels) ==
    (channels * width) \div targetChannels

\* createFunction: targetWidth
targetWidthOf(width, channels, targetChannels) ==
    LET origChannelsPerRow == channels * width
        w == origChannelsPerRow \div targetChannels
    IN  IF origChannelsPerRow % targetChannels # 0 THEN w + 1 ELSE w

\* createFunction: the shader body, with ratio and channels written into it
repackShaderBody(channels, targetChannels) ==
    [kind |-> "repack", ratio |-> targetChannels \div channels, channels |-> channels]

\* createReadAdpater: targetChannels under the build's #ifdef
targetChannelsOf(build, channels) ==
    IF build = "es" THEN 4 ELSE IF channels = 2 THEN 4 ELSE channels

\* createReadAdpater: targetDataType under the build's #ifdef
targetDataTypeOf(build, dataType) ==
    IF build = "es" THEN "UINT8" ELSE dataType

\* Image::bytesPerPixel()
bytesPerPixel(img) == img.channels * bytesPerChannel(img.dataType)

\* the loop advancing inOffset by the logical row width
advanceInByRow(inOffset, origRowWidth, bufRowWidth) == inOffset + origRowWidth

\* inOffset += bufRowWidth
advanceIn(inOffset, origRowWidth, bufRowWidth) == inOffset + bufRowWidth

\* std::memcpy(out + outOffset, cpuBuffer.data() + inOffset, origRowWidth);
\* c carries the output buffer, the offsets, the offsets read and written,
\* and whether a copy left a buffer
memcpyRow(c, cpuBuffer, n) ==
    [c EXCEPT
        !.out = [o \in DOMAIN c.out |->
                    IF (o - 1) >= c.outOffset /\ (o - 1) < c.outOffset + n
                       /\ (o - 1) - c.outOffset + c.inOffset < Len(cpuBuffer)
                    THEN cpuBuffer[(o - 1) - c.outOffset + c.inOffset + 1]
                    ELSE c.out[o]],
        !.read = @ \cup (c.inOffset..c.inOffset + n - 1),
        !.written = @ \cup (c.outOffset..c.outOffset + n - 1),
        !.overrun = @ \/ c.outOffset + n > Len(c.out)
                      \/ c.inOffset + n > Len(cpuBuffer)]

\* for (int i = 0; i < nRows; ++i) { memcpy; outOffset += ...; inOffset += ... }
RECURSIVE compactRows(_, _, _, _, _, _)
compactRows(c, cpuBuffer, origRowWidth, bufRowWidth, nRows, i) ==
    IF i >= nRows THEN c
    ELSE LET c1 == memcpyRow(c, cpuBuffer, origRowWidth)
         IN  compactRows(
                [c1 EXCEPT !.outOffset = @ + origRowWidth,
                           !.inOffset = advanceIn(@, origRowWidth, bufRowWidth)],
                cpuBuffer, origRowWidth, bufRowWidth, nRows, i + 1)

\* cpuFunction(out), the lambda setRepackFunction installs
cpuFunction(a, out) ==
    compactRows([out |-> out, inOffset |-> 0, outOffset |-> 0,
                 read |-> {}, written |-> {}, overrun |-> FALSE],
                a.cpuBuffer, a.origRowWidth, a.bufRowWidth, a.buffer.height, 0)

\* Adapter::setRepackFunction(image): the adapter, and what it returned
setRepackFunction(a, img) ==
    IF imageSize(a.buffer) = imageSize(img) THEN [adapter |-> a, installed |-> FALSE,
                                                  fatal |-> FALSE]
    ELSE LET origRowWidth == img.width * bytesPerPixel(img)
             bufRowWidth == a.buffer.width * bytesPerPixel(a.buffer)
         IN  [adapter |-> [a EXCEPT !.cpuBuffer = Zeros(imageSize(a.buffer)),
                                    !.origRowWidth = origRowWidth,
                                    !.bufRowWidth = bufRowWidth,
                                    !.hasCpuFunction = TRUE],
              installed |-> TRUE,
              fatal |-> ~(origRowWidth < bufRowWidth)]

\* shader->function(input, output), the lambda createFunction's builder makes
shaderFunction(g, pipeline, input, output, garbage) ==
    LET g1 == BinderCtor(g, pipeline)
        pl == PipelineBindTexture(pipeline, 0, input.fb.texture.id)
        g2 == BinderCtor(g1, pl.textureBinders[1])
        g3 == GlslPipelineCall(g2, pl, output.fb, garbage)
        g4 == BinderDtor(g3, pl.textureBinders[1])
    IN  [pipeline |-> pl, gl |-> BinderDtor(g4, pl)]

\* logical: the bytes of the image in the order of the caller's calls
NoImage == [state |-> "none", width |-> 1, height |-> 1, channels |-> 1,
            dataType |-> "UINT8", fb |-> NoObject, writes |-> 0, logical |-> <<>>]

NoAdapter ==
    [state |-> "none", targetChannels |-> 0, targetWidth |-> 0,
     buffer |-> NoImage, shaderBody |-> NoShader, pipeline |-> NoObject,
     hasCpuFunction |-> FALSE, origRowWidth |-> 0, bufRowWidth |-> 0,
     cpuBuffer |-> <<>>, warnings |-> 0]

ReadUnused(garbage) ==
    /\ env = [build |-> "desktop", processor |-> "instant", garbage |-> garbage]
    /\ image = NoImage
    /\ adapter = NoAdapter
    /\ queue = <<>>
    /\ reads = <<>>
    /\ aborted = FALSE

ReadIdle == ReadUnused(0)

ReadInit ==
    /\ \E b \in Builds, p \in Processors, g \in GarbageBytes :
        env = [build |-> b, processor |-> p, garbage |-> g]
    /\ \E w \in 1..MaxWidth, h \in 1..MaxHeight, c \in 1..MaxChannels, d \in DataTypes :
        image = [NoImage EXCEPT !.state = "declared", !.width = w, !.height = h,
                                !.channels = c, !.dataType = d]
    /\ adapter = NoAdapter
    /\ queue = <<>>
    /\ reads = <<>>
    /\ aborted = FALSE

(***************************************************************************)
(* The Processor and the GPU image's raw transfers. st carries the         *)
(* context, the adapter, the invocations, the queue and the abort flag     *)
(* through a handler.                                                      *)
(***************************************************************************)
Unit(kind, read, dest, pixels, resolves) ==
    [kind |-> kind, read |-> read, dest |-> dest, pixels |-> pixels,
     resolves |-> resolves,
     lane |-> IF kind = "compact" THEN "processor" ELSE "transfer"]

Resolve(st, u) ==
    IF u.resolves THEN [st EXCEPT !.reads[u.read].resolved = TRUE] ELSE st

\* One unit of work run by the Processor
RunUnit(st, u) ==
    CASE u.kind = "writePixels" ->
            [st EXCEPT !.gl = FrameBufferWritePixels(st.gl, image.fb, u.pixels)]
      [] u.kind = "readPixels" ->
            LET r == FrameBufferReadPixels(st.gl, st.adapter.buffer.fb)
                st1 == [st EXCEPT !.gl = r.gl]
            IN  Resolve(
                    IF u.dest = "cpuBuffer"
                    THEN [st1 EXCEPT !.adapter.cpuBuffer = r.pixels,
                                     !.reads[u.read].pulled = TRUE]
                    ELSE [st1 EXCEPT !.reads[u.read].out = r.pixels,
                                     !.reads[u.read].pulled = TRUE], u)
      [] u.kind = "compact" ->
            LET c == cpuFunction(st.adapter, st.reads[u.read].out)
            IN  Resolve(
                    [st EXCEPT !.reads[u.read].out = c.out,
                               !.reads[u.read].compacted = TRUE,
                               !.reads[u.read].compactAfterPull =
                                    st.reads[u.read].pulled,
                               !.reads[u.read].compactIn = st.adapter.cpuBuffer,
                               !.reads[u.read].compactRead = c.read,
                               !.reads[u.read].compactWritten = c.written,
                               !.reads[u.read].inOffset = c.inOffset,
                               !.aborted = @ \/ c.overrun
                                    \/ c.inOffset # imageSize(st.adapter.buffer)], u)

\* What a read function's invocation has asked of the Processor: the units
\* it enqueued there, and the unit whose future it returns
Issued(st, u) ==
    IF u.read = 0 THEN st
    ELSE [st EXCEPT
            !.reads[u.read].enqueued = IF u.lane = "processor" THEN @ + 1 ELSE @,
            !.reads[u.read].future = IF u.resolves THEN u.kind ELSE @,
            !.reads[u.read].pullAfterDraw =
                IF u.kind = "readPixels"
                THEN \E i \in DOMAIN st.reads[u.read].repackLog :
                        st.reads[u.read].repackLog[i][1] = "draw"
                ELSE @]

\* processor.enqueue(unit): an instant Processor runs it before returning
Enqueue(st, u) ==
    IF env.processor = "instant" THEN RunUnit(Issued(st, u), u)
    ELSE [Issued(st, u) EXCEPT !.queue = Append(@, u)]

RECURSIVE EnqueueAll(_, _)
EnqueueAll(st, units) ==
    IF units = <<>> THEN st
    ELSE EnqueueAll(Enqueue(st, Head(units)), Tail(units))

\* a read function that hands the pull to the Processor as well
ReadUnitsAllOnProcessor(hasCpuFunction, k) ==
    IF hasCpuFunction
    THEN << [Unit("readPixels", k, "cpuBuffer", <<>>, FALSE)
                EXCEPT !.lane = "processor"],
            Unit("compact", k, "out", <<>>, TRUE) >>
    ELSE << [Unit("readPixels", k, "out", <<>>, TRUE)
                EXCEPT !.lane = "processor"] >>

\* The units the read function issues after the repack pass, in order:
\* buffer->readRaw(cpuBuffer) and processor.enqueue(cpuFunction), whose
\* future it returns; or buffer->readRaw(outData), whose future it returns
ReadUnits(hasCpuFunction, k) ==
    IF hasCpuFunction
    THEN << Unit("readPixels", k, "cpuBuffer", <<>>, FALSE),
            Unit("compact", k, "out", <<>>, TRUE) >>
    ELSE << Unit("readPixels", k, "out", <<>>, TRUE) >>

Handler == [gl |-> [gl EXCEPT !.log = <<>>], adapter |-> adapter, reads |-> reads,
            queue |-> queue, aborted |-> aborted]

Commit(st) ==
    /\ gl' = st.gl
    /\ adapter' = st.adapter
    /\ reads' = st.reads
    /\ queue' = st.queue
    /\ aborted' = st.aborted

\* imageFactory.create(w, h, channels, dataType) on the GPU backend
CreateImage ==
    /\ image.state = "declared"
    /\ LET c == FrameBufferCtor([gl EXCEPT !.log = <<>>], image.width, image.height,
                    [channels |-> image.channels, dataType |-> image.dataType],
                    env.garbage)
       IN  /\ gl' = c.gl
           /\ image' = [image EXCEPT !.state = "created", !.fb = c.obj,
                                     !.logical = c.gl.store[c.obj.texture.id].data]
    /\ UNCHANGED <<border, cpuVars, lifeVars, env, adapter, queue, reads, aborted>>

\* the bytes of the n-th upload start at this value
WriteSeed(n) == 1 + 229 * n

\* image.writeRaw(data): the upload is a unit of work of the Processor
WriteRaw ==
    /\ image.state = "created"
    /\ ~aborted
    /\ image.writes + Len(reads) <
            (IF env.processor = "separate" THEN MaxSeparateCalls ELSE MaxCalls)
    /\ Commit(Enqueue(Handler,
            Unit("writePixels", 0, "image",
                 Pattern(WriteSeed(image.writes), imageSize(image)), FALSE)))
    /\ image' = [image EXCEPT
                    !.writes = @ + 1,
                    !.logical = Pattern(WriteSeed(image.writes), imageSize(image))]
    /\ UNCHANGED <<border, cpuVars, lifeVars, env>>

\* a warning whatever setRepackFunction returned
warnAlways(a, installed) == [a EXCEPT !.warnings = @ + 1]

\* if (adapter->setRepackFunction(image)) log_warn("... need CPU repacking")
warnIfRepacking(a, installed) ==
    IF installed THEN [a EXCEPT !.warnings = @ + 1] ELSE a

\* createReadAdpater(image, processor, imageFactory, opFactory)
CreateReadAdapter ==
    /\ image.state = "created"
    /\ adapter.state = "none"
    /\ ~aborted
    /\ LET targetDataType == targetDataTypeOf(env.build, image.dataType)
           targetChannels == targetChannelsOf(env.build, image.channels)
           asserts == /\ targetDataType = image.dataType
                      /\ targetChannels > image.channels
                      /\ targetChannels % image.channels = 0
       IN  IF ~asserts
           THEN /\ aborted' = TRUE
                /\ UNCHANGED <<gl, adapter, queue, reads>>
           ELSE LET targetWidth == targetWidthOf(image.width, image.channels,
                                                 targetChannels)
                    bspec == [channels |-> targetChannels, dataType |-> targetDataType]
                    bc == FrameBufferCtor([gl EXCEPT !.log = <<>>], targetWidth,
                                          image.height, bspec, env.garbage)
                    a == [NoAdapter EXCEPT
                            !.state = "ready",
                            !.targetChannels = targetChannels,
                            !.targetWidth = targetWidth,
                            !.shaderBody = repackShaderBody(image.channels,
                                                            targetChannels),
                            !.buffer = [state |-> "created", width |-> targetWidth,
                                        height |-> image.height,
                                        channels |-> targetChannels,
                                        dataType |-> targetDataType,
                                        fb |-> bc.obj, writes |-> 0,
                                        logical |-> <<>>]]
                    r == setRepackFunction(a, image)
                IN  /\ gl' = bc.gl
                    /\ adapter' = warnIfRepacking(r.adapter, r.installed)
                    /\ aborted' = r.fatal
                    /\ UNCHANGED <<queue, reads>>
    /\ UNCHANGED <<border, cpuVars, lifeVars, env, image>>

NewRead(expected) ==
    [out |-> Zeros(imageSize(image)), resolved |-> FALSE, expected |-> expected,
     idle |-> queue = <<>>, enqueued |-> 0, future |-> "none",
     logical |-> image.logical, draw |-> GlDefault.lastDraw,
     pullAfterDraw |-> FALSE, pulled |-> FALSE, compactAfterPull |-> FALSE,
     overlaps |-> \E n \in DOMAIN reads : ~reads[n].resolved,
     repackLog |-> <<>>, compacted |-> FALSE, compactIn |-> <<>>,
     compactRead |-> {}, compactWritten |-> {}, inOffset |-> 0]

\* The read function createReadAdpater returns, called with an output buffer
\* of image.size() bytes. The pipeline is built on the first call.
Read ==
    /\ adapter.state = "ready"
    /\ ~aborted
    /\ image.writes + Len(reads) <
            (IF env.processor = "separate" THEN MaxSeparateCalls ELSE MaxCalls)
    /\ LET k == Len(reads) + 1
           pc == IF adapter.pipeline.kind = "none"
                 THEN GlslPipelineCtor(Handler.gl, adapter.shaderBody, 1)
                 ELSE [obj |-> adapter.pipeline, gl |-> Handler.gl]
           sf == shaderFunction(pc.gl, pc.obj, image, adapter.buffer, env.garbage)
           st0 == [Handler EXCEPT
                    !.gl = sf.gl,
                    !.adapter.pipeline = sf.pipeline,
                    !.reads = Append(@,
                        [NewRead(gl.store[image.fb.texture.id].data)
                            EXCEPT !.repackLog = sf.gl.log,
                                   !.draw = sf.gl.lastDraw])]
       IN  Commit(EnqueueAll(st0, ReadUnits(adapter.hasCpuFunction, k)))
    /\ UNCHANGED <<border, cpuVars, lifeVars, env, image>>

\* queue without its i-th unit
Without(q, i) == SubSeq(q, 1, i - 1) \o SubSeq(q, i + 1, Len(q))

\* the i-th unit is the oldest of its queue
Runnable(i) ==
    \A j \in 1..(i - 1) :
        env.processor = "separate" /\ queue[j].lane # queue[i].lane

\* The Processor runs the oldest unit of a queue
ProcessorRun ==
    /\ ~aborted
    /\ \E i \in DOMAIN queue :
        /\ Runnable(i)
        /\ Commit(RunUnit([Handler EXCEPT !.queue = Without(@, i)], queue[i]))
    /\ UNCHANGED <<border, cpuVars, lifeVars, env, image>>

(***************************************************************************)
(* The wrappers inside an application's graphics context. The application  *)
(* makes GL calls of its own between two operations of the wrappers, so an *)
(* operation starts from any binding and flag state.                       *)
(***************************************************************************)
\* The wrappers the application creates, in this order
Scene ==
    << [kind |-> "texture", inputs |-> 0],
       [kind |-> "framebuffer", inputs |-> 0],
       [kind |-> "program", inputs |-> 0],
       [kind |-> "pipeline", inputs |-> 0],
       [kind |-> "pipeline", inputs |-> 2] >>

GlFlags == {"depthTest", "blend"}

\* the call log and the draw record are those of the operation being run
CtxFresh(g) == [g EXCEPT !.log = <<>>, !.lastDraw = GlDefault.lastDraw]

CtxInit ==
    /\ objs = <<>>
    /\ life = [slot \in 1..MaxObjects |-> NoLife]
    /\ scope = NoScope

\* Texture::create, FrameBuffer::create, ..., GlslPipeline::create with a
\* vector of s.inputs input specs
CtxCreate ==
    /\ Len(objs) < Len(Scene)
    /\ LET s == Scene[Len(objs) + 1]
           c == IF s.kind = "pipeline"
                THEN GlslPipelineCtor(CtxFresh(gl), NoShader, s.inputs)
                ELSE Create(CtxFresh(gl), s.kind,
                            [channels |-> 1, dataType |-> "UINT8"], env.garbage)
       IN  /\ gl' = c.gl
           /\ objs' = Append(objs, c.obj)
           /\ scope' = [op |-> "create", kind |-> s.kind,
                        input |-> 0]
    /\ UNCHANGED <<life, border, cpuVars, readVars>>

\* A GL call of the application on the shared context
glClientCall(g, call, arg) ==
    CASE call = "glBindTexture" -> [g EXCEPT !.textureAt[g.activeTexture] = arg]
      [] call = "glBindFramebuffer" -> [g EXCEPT !.framebuffer = arg]
      [] call = "glUseProgram" -> [g EXCEPT !.program = arg]
      [] call = "glActiveTexture" -> [g EXCEPT !.activeTexture = arg]
      [] call = "glEnable" -> [g EXCEPT ![arg] = TRUE]
      [] call = "glDisable" -> [g EXCEPT ![arg] = FALSE]

ClientArgs(g, call) ==
    CASE call = "glBindTexture" -> 0..g.generated.texture
      [] call = "glBindFramebuffer" -> 0..g.generated.framebuffer
      [] call = "glUseProgram" -> 0..g.generated.program
      [] call = "glActiveTexture" -> TextureSlots
      [] OTHER -> GlFlags

CtxClient ==
    /\ \E call \in {"glBindTexture", "glBindFramebuffer", "glUseProgram",
                    "glActiveTexture", "glEnable", "glDisable"} :
        \E arg \in ClientArgs(gl, call) :
            gl' = glClientCall(CtxFresh(gl), call, arg)
    /\ scope' = [NoScope EXCEPT !.op = "client"]
    /\ UNCHANGED <<objs, life, border, cpuVars, readVars>>

\* { Binder binder(wrapper); }
CtxBinder ==
    /\ \E slot \in DOMAIN objs :
        /\ gl' = BinderDtor(BinderCtor(CtxFresh(gl), objs[slot]), objs[slot])
        /\ scope' = [op |-> "binder", kind |-> objs[slot].kind, input |-> 0]
    /\ UNCHANGED <<objs, life, border, cpuVars, readVars>>

\* { Binder binder(pipeline.bindTexture(i, textureId)); }
CtxUniformBinder ==
    /\ \E slot \in DOMAIN objs :
        /\ objs[slot].kind = "pipeline"
        /\ \E i \in 0..(Len(objs[slot].textureBinders) - 1) :
            LET pl == PipelineBindTexture(objs[slot], i, objs[1].id)
                b == pl.textureBinders[i + 1]
            IN  /\ gl' = BinderDtor(BinderCtor(CtxFresh(gl), b), b)
                /\ objs' = [objs EXCEPT ![slot] = pl]
                /\ scope' = [op |-> "uniform", kind |-> "textureUniform", input |-> i]
    /\ UNCHANGED <<life, border, cpuVars, readVars>>

\* frameBuffer.readPixels(pixels)
CtxReadPixels ==
    /\ \E slot \in DOMAIN objs :
        /\ objs[slot].kind = "framebuffer"
        /\ gl' = FrameBufferReadPixels(CtxFresh(gl), objs[slot]).gl
        /\ scope' = [op |-> "readPixels", kind |-> "framebuffer", input |-> 0]
    /\ UNCHANGED <<objs, life, border, cpuVars, readVars>>

\* frameBuffer.writePixels(pixels)
CtxWritePixels ==
    /\ \E slot \in DOMAIN objs :
        /\ objs[slot].kind = "framebuffer"
        /\ gl' = FrameBufferWritePixels(CtxFresh(gl), objs[slot],
                    Pattern(WriteSeed(0),
                            imageSize([width |-> objs[slot].width,
                                       height |-> objs[slot].height,
                                       channels |-> objs[slot].spec.channels,
                                       dataType |-> objs[slot].spec.dataType])))
        /\ scope' = [op |-> "writePixels", kind |-> "framebuffer", input |-> 0]
    /\ UNCHANGED <<objs, life, border, cpuVars, readVars>>

\* fragmentShader.call(frameBuffer), pipeline.call(frameBuffer)
CtxCall ==
    /\ \E slot \in DOMAIN objs, target \in DOMAIN objs :
        /\ objs[slot].kind \in {"fragmentShader", "pipeline"}
        /\ objs[target].kind = "framebuffer"
        /\ gl' = IF objs[slot].kind = "pipeline"
                 THEN GlslPipelineCall(CtxFresh(gl), objs[slot], objs[target],
                                       env.garbage)
                 ELSE GlslFragmentShaderCall(CtxFresh(gl), objs[slot],
                                             objs[target], env.garbage)
        /\ scope' = [op |-> "call", kind |-> objs[slot].kind, input |-> 0]
    /\ UNCHANGED <<objs, life, border, cpuVars, readVars>>

\* The Binders of the inputs from the i-th on, around pipeline.call
RECURSIVE InvokeInputs(_, _, _, _, _)
InvokeInputs(g, pl, i, frameBuffer, garbage) ==
    IF i > Len(pl.textureBinders)
    THEN GlslPipelineCall(g, pl, frameBuffer, garbage)
    ELSE BinderDtor(InvokeInputs(BinderCtor(g, pl.textureBinders[i]), pl, i + 1,
                                 frameBuffer, garbage),
                    pl.textureBinders[i])

\* One invocation of a pipeline: Binder binder(pipeline); a Binder of
\* pipeline.bindTexture(i, textureId) for each input; pipeline.call(output)
Invoke(g, pipeline, textureId, frameBuffer, garbage) ==
    LET pl == [pipeline EXCEPT !.textureBinders =
                    [i \in DOMAIN @ |-> setTextureId(@[i], textureId)]]
        g1 == BinderCtor(g, pl)
    IN  [pipeline |-> pl,
         gl |-> BinderDtor(InvokeInputs(g1, pl, 1, frameBuffer, garbage), pl)]

CtxInvoke ==
    /\ \E slot \in DOMAIN objs, target \in DOMAIN objs :
        /\ objs[slot].kind = "pipeline"
        /\ objs[target].kind = "framebuffer"
        /\ LET r == Invoke(CtxFresh(gl), objs[slot], objs[1].id, objs[target],
                           env.garbage)
           IN  /\ gl' = r.gl
               /\ objs' = [objs EXCEPT ![slot] = r.pipeline]
               /\ scope' = [op |-> "invoke", kind |-> "pipeline",
                            input |-> Len(objs[slot].textureBinders)]
    /\ UNCHANGED <<life, border, cpuVars, readVars>>

(***************************************************************************)
(* Specifications                                                          *)
(***************************************************************************)
Next == CreateImage \/ WriteRaw \/ CreateReadAdapter \/ Read \/ ProcessorRun

Init == ReadInit /\ gl = GlDefault /\ LifeIdle /\ border = BorderIdle /\ CpuIdle

Spec == Init /\ [][Next]_vars

BorderNext == ApplyBorder

InitBorder == BorderInit /\ CpuIdle /\ LifeIdle /\ gl = GlDefault /\ ReadIdle

SpecBorder == InitBorder /\ [][BorderNext]_vars

CpuNext ==
    CpuSet \/ CpuSetPixel \/ CpuGet \/ CpuGetPixel \/ CpuWriteRaw \/ CpuReadRaw

InitCpuImage == CpuInit /\ border = BorderIdle /\ LifeIdle /\ gl = GlDefault /\ ReadIdle

SpecCpuImage == InitCpuImage /\ [][CpuNext]_vars

LifeNext == LifeCreate \/ LifeDestroy \/ LifeFinalize

InitLifecycle ==
    /\ LifeIdle /\ gl = GlDefault /\ border = BorderIdle /\ CpuIdle
    /\ \E garbage \in GarbageBytes : ReadUnused(garbage)

SpecLifecycle == InitLifecycle /\ [][LifeNext]_vars

ContextNext ==
    \/ CtxCreate \/ CtxClient \/ CtxBinder \/ CtxUniformBinder
    \/ CtxReadPixels \/ CtxWritePixels \/ CtxCall \/ CtxInvoke

InitContext ==
    /\ CtxInit /\ gl = GlDefault /\ border = BorderIdle /\ CpuIdle
    /\ \E garbage \in GarbageBytes : ReadUnused(garbage)

SpecContext == InitContext /\ [][ContextNext]_vars

RepackNext == CreateImage \/ CreateReadAdapter

\* createReadAdpater on images of every size, those of no rows included
InitRepack ==
    /\ \E b \in Builds, p \in Processors, g \in GarbageBytes :
        env = [build |-> b, processor |-> p, garbage |-> g]
    /\ \E w \in 1..MaxWidth, h \in 0..MaxHeight, c \in 1..MaxChannels, d \in DataTypes :
        image = [NoImage EXCEPT !.state = "declared", !.width = w, !.height = h,
                                !.channels = c, !.dataType = d]
    /\ adapter = NoAdapter /\ queue = <<>> /\ reads = <<>> /\ aborted = FALSE
    /\ gl = GlDefault /\ LifeIdle /\ border = BorderIdle /\ CpuIdle

SpecRepack == InitRepack /\ [][RepackNext]_vars

(***************************************************************************)
(* Claims on the CPU image (SpecCpuImage)                                  *)
(***************************************************************************)
\* The bytes last set at every channel of pixel (x, y), in channel order
ShadowPixel(x, y) ==
    LET bpc == bytesPerChannel(cpuImage.dataType)
    IN  [i \in 1..cpuImage.channels * bpc |->
            cpuShadow[<<x, y, (i - 1) \div bpc>>][((i - 1) % bpc) + 1]]

\* C8: set(x, y, c, v) followed by get(x, y, c) returns v, and the all-channel
\* set followed by the all-channel get returns v, whatever in-bounds set calls
\* at other positions came in between.
C8_SetGetRoundTrip ==
    /\ \A t \in DOMAIN cpuShadow :
        cpuShadow[t] # <<>> =>
            /\ getChannel(cpuImage, t[1], t[2], t[3]) = cpuShadow[t]
            /\ (cpuLast.op = "get" /\ <<cpuLast.x, cpuLast.y, cpuLast.channel>> = t)
                    => cpuLast.result = cpuShadow[t]
    /\ \A x \in 0..cpuImage.width - 1, y \in 0..cpuImage.height - 1 :
        (\A c \in 0..cpuImage.channels - 1 : cpuShadow[<<x, y, c>>] # <<>>) =>
            /\ getPixel(cpuImage, x, y) = ShadowPixel(x, y)
            /\ (cpuLast.op = "getPixel" /\ cpuLast.x = x /\ cpuLast.y = y)
                    => cpuLast.result = ShadowPixel(x, y)

\* C8 witness: a position set earlier, then a different value set elsewhere
C8_Witness ==
    /\ cpuLast.op \in {"set", "setPixel"}
    /\ \E t1, t2 \in DOMAIN cpuShadow :
        /\ <<t1[1], t1[2]>> # <<t2[1], t2[2]>>
        /\ <<cpuLast.x, cpuLast.y>> = <<t2[1], t2[2]>>
        /\ cpuShadow[t1] # <<>> /\ cpuShadow[t2] # <<>>
        /\ cpuShadow[t1] # cpuShadow[t2]
        /\ t1[2] > 0 /\ t1[3] > 0
        /\ getChannel(cpuImage, t1[1], t1[2], t1[3]) = cpuShadow[t1]

\* The first byte offset the code addresses for an in-bounds (x, y, channel)
FirstByte(t) == channelOffset(cpuImage, t[1], t[2], t[3])

\* C9: set(x, y, c, v) changes exactly the bytesPerElement bytes at offset
\* (y*width + x)*channels*bytesPerElement + c*bytesPerElement; distinct
\* in-bounds triples address disjoint ranges inside the backing store, whose
\* length stays width*height*channels*bytesPerElement.
C9_SetFrame ==
    LET bpe == bytesPerChannel(cpuImage.dataType)
        total == cpuImage.width * cpuImage.height * cpuImage.channels * bpe
    IN  /\ Len(cpuImage.data) = total
        /\ cpuLast.op = "set" =>
            LET off == (cpuLast.y * cpuImage.width + cpuLast.x) * cpuImage.channels * bpe
                            + cpuLast.channel * bpe
            IN  /\ Len(cpuLast.before) = total
                /\ \A o \in 0..total - 1 :
                    cpuImage.data[o + 1] =
                        IF o >= off /\ o < off + bpe
                        THEN cpuLast.value[o - off + 1]
                        ELSE cpuLast.before[o + 1]
        \* the addressing depends on the image's shape alone, which is fixed
        \* at construction: checked on every image constructed
        /\ cpuOps = 0 =>
            \A t1, t2 \in Positions(cpuImage) :
                /\ FirstByte(t1) >= 0 /\ FirstByte(t1) + bpe <= total
                /\ t1 # t2 => \/ FirstByte(t1) + bpe <= FirstByte(t2)
                              \/ FirstByte(t2) + bpe <= FirstByte(t1)

\* C9 witness: a set on a later row and channel that changed the store
C9_Witness ==
    /\ cpuLast.op = "set"
    /\ cpuLast.y > 0 /\ cpuLast.channel > 0
    /\ cpuLast.before # cpuImage.data
    /\ cpuOps = MaxCpuOps

\* C14: on the CPU image readRaw and writeRaw have copied all size() bytes
\* when they return, and their future is resolved at that moment; so
\* writeRaw(b) followed by readRaw(out) gives out = b, and the bytes readRaw
\* delivers agree with what get returns at every (x, y, channel).
C14_RawCopy ==
    LET bpc == bytesPerChannel(cpuImage.dataType)
    IN  /\ cpuLast.op = "writeRaw" =>
            /\ cpuLast.future = "resolved"
            /\ Len(cpuLast.value) = imageSize(cpuImage)
            /\ cpuImage.data = cpuLast.value
        /\ cpuLast.op = "readRaw" =>
            /\ cpuLast.future = "resolved"
            /\ Len(cpuLast.result) = imageSize(cpuImage)
            /\ cpuLast.value # <<>> => cpuLast.result = cpuLast.value
            /\ \A t \in Positions(cpuImage) :
                getChannel(cpuImage, t[1], t[2], t[3]) =
                    SubSeq(cpuLast.result,
                           ((t[2] * cpuImage.width + t[1]) * cpuImage.channels
                                + t[3]) * bpc + 1,
                           ((t[2] * cpuImage.width + t[1]) * cpuImage.channels
                                + t[3] + 1) * bpc)

\* C14 witness: a writeRaw on an image of several rows and channels, then a
\* readRaw that returned its bytes
C14_Witness ==
    /\ cpuLast.op = "readRaw"
    /\ cpuLast.value # <<>>
    /\ cpuLast.result = cpuLast.value
    /\ cpuImage.height > 1 /\ cpuImage.channels > 1

(***************************************************************************)
(* Claims on the border policy (SpecBorder)                                *)
(***************************************************************************)
\* C10: with WRAP, every coordinate is rewritten to the value in [0, size)
\* congruent to it modulo size, and the sample is reported valid.
C10_WrapIntoRange ==
    (border.calls = 1 /\ border.mode = "WRAP") =>
        /\ border.valid /\ ~border.fatal
        /\ border.x \in 0..border.width - 1
        /\ (border.x - border.x0) % border.width = 0
        /\ border.y \in 0..border.height - 1
        /\ (border.y - border.y0) % border.height = 0

InRange(i, size) == i >= 0 /\ i < size

\* one reflection brings i into [0, size)
OneReflection(i, size) == i > -size /\ i <= 2 * (size - 1)

Reflected(i, size) ==
    IF i < 0 THEN -i ELSE IF i >= size THEN 2 * (size - 1) - i ELSE i

\* C11: with MIRROR, a coordinate with -size < i < 0 becomes -i and one with
\* size <= i <= 2*(size-1) becomes 2*(size-1) - i, both valid and in
\* [0, size); any other out-of-range coordinate hits the fatal assert, so
\* MIRROR never reports valid with a coordinate outside [0, size).
C11_MirrorOnce ==
    (border.calls = 1 /\ border.mode = "MIRROR") =>
        LET xOne == OneReflection(border.x0, border.width)
            yOne == OneReflection(border.y0, border.height)
        IN  /\ border.fatal <=> ~(xOne /\ yOne)
            /\ xOne => /\ border.x = Reflected(border.x0, border.width)
                       /\ InRange(border.x, border.width)
            /\ (xOne /\ yOne) =>
                       /\ border.valid
                       /\ border.y = Reflected(border.y0, border.height)
                       /\ InRange(border.y, border.height)
            /\ border.valid => /\ InRange(border.x, border.width)
                               /\ InRange(border.y, border.height)

\* C11 witness: x reflected at the low edge, y at the high edge
C11_Witness ==
    /\ border.calls = 1 /\ border.mode = "MIRROR"
    /\ border.x0 < 0 /\ border.y0 >= border.height
    /\ border.valid /\ ~border.fatal
    /\ border.x = -border.x0
    /\ border.y = 2 * (border.height - 1) - border.y0

Clamped(i, size) == IF i < 0 THEN 0 ELSE IF i > size - 1 THEN size - 1 ELSE i

\* C12: for ZERO, MIRROR, REPEAT and WRAP, applyBorder on a pair already in
\* [0, width) x [0, height) leaves both coordinates unchanged and reports
\* valid; under REPEAT every coordinate becomes min(max(i, 0), size - 1), and
\* a second applyBorder on that result changes nothing.
C12_InRangeFixed ==
    border.calls >= 1 =>
        /\ (/\ border.mode \in {"ZERO", "MIRROR", "REPEAT", "WRAP"}
            /\ InRange(border.x0, border.width)
            /\ InRange(border.y0, border.height)) =>
                /\ border.x = border.x0 /\ border.y = border.y0
                /\ border.valid /\ ~border.fatal
        /\ border.mode = "REPEAT" =>
                /\ border.x = Clamped(border.x0, border.width)
                /\ border.y = Clamped(border.y0, border.height)
                /\ border.valid /\ ~border.fatal

\* C12 witness: a second REPEAT call on coordinates the first one clamped
C12_Witness ==
    /\ border.calls = 2 /\ border.mode = "REPEAT"
    /\ border.x0 < 0 /\ border.y0 >= border.height
    /\ border.x = 0 /\ border.y = border.height - 1

\* an axis resolves to a valid sample
AxisValid(i, size, mode) ==
    \/ InRange(i, size)
    \/ mode \in {"REPEAT", "WRAP"}
    \/ mode = "MIRROR" /\ OneReflection(i, size)

\* C13: applyBorder reports valid exactly when the x axis against width and
\* the y axis against height both resolve to a valid sample; under ZERO it
\* reports valid iff 0 <= x < width and 0 <= y < height, and never changes
\* x or y.
C13_BothAxes ==
    border.calls = 1 =>
        /\ border.valid <=> /\ AxisValid(border.x0, border.width, border.mode)
                            /\ AxisValid(border.y0, border.height, border.mode)
        /\ border.mode = "ZERO" =>
            /\ border.valid <=> /\ InRange(border.x0, border.width)
                                /\ InRange(border.y0, border.height)
            /\ border.x = border.x0 /\ border.y = border.y0
            /\ ~border.fatal

\* C13 witness: ZERO with x inside and y outside, reported not valid
C13_Witness ==
    /\ border.calls = 1 /\ border.mode = "ZERO"
    /\ InRange(border.x0, border.width)
    /\ ~InRange(border.y0, border.height)
    /\ ~border.valid
    /\ border.x = border.x0 /\ border.y = border.y0

(***************************************************************************)
(* Claims on the life cycle of the GPU wrappers (SpecLifecycle)            *)
(***************************************************************************)
\* C5: a second destroy() is a no-op: no destroy() after a wrapper's first
\* issues a hardware delete call, so no handle is deleted twice.
C5_DestroyIdempotent ==
    /\ \A slot \in 1..MaxObjects : life[slot].laterDeletes = 0
    /\ \A handle \in BagToSet(gl.deleted) : CopiesIn(handle, gl.deleted) = 1

\* C6: a wrapper finalized with no destroy() before logs at least one leak
\* warning and does not abort; one finalized after a destroy() logs none;
\* finalization issues no hardware delete call.
C6_LeakWarning ==
    \A slot \in 1..MaxObjects :
        life[slot].state = "finalized" =>
            /\ life[slot].destroyCalls = 0 => life[slot].warnings >= 1
            /\ life[slot].destroyCalls >= 1 => life[slot].warnings = 0
            /\ ~life[slot].fatal
            /\ life[slot].finalizeDeletes = 0

\* C6 witness: a pipeline finalized without destroy(), warned about, and a
\* frame buffer finalized after destroy()
C6_Witness ==
    \E s1, s2 \in 1..MaxObjects :
        /\ objs[s1].kind = "pipeline" /\ life[s1].state = "finalized"
        /\ life[s1].destroyCalls = 0 /\ life[s1].warnings >= 1
        /\ objs[s2].kind = "framebuffer" /\ life[s2].state = "finalized"
        /\ life[s2].destroyCalls >= 1 /\ life[s2].warnings = 0

(***************************************************************************)
(* Claims on the read-back adapter (Spec)                                  *)
(***************************************************************************)
\* C1: on the desktop build, for a 2-channel image, a read called on an idle
\* Processor that runs its units in the order they were enqueued, once its
\* future has resolved, left in the output buffer exactly the image.size()
\* bytes the image held at the call, in row-major order with the channels
\* interleaved, with and without the compaction step.
C1_ReadBack ==
    (env.build = "desktop" /\ env.processor # "separate"
            /\ image.channels = 2 /\ reads # <<>>) =>
        LET r == reads[Len(reads)]
        IN  (r.idle /\ r.resolved) =>
                /\ Len(r.out) = imageSize(image)
                /\ r.out = r.expected

\* C2: after the repack pass, for every pixel (X, Y) of the intermediate
\* image and every i < k, j < M with a source texel at (X*k + i, Y), channel
\* i*M + j of that pixel equals channel j of the source texel (X*k + i, Y).
C2_RepackLayout ==
    reads # <<>> =>
        LET src == reads[Len(reads)].expected
            buf == gl.store[adapter.buffer.fb.texture.id].data
            M == image.channels
            N == adapter.targetChannels
            k == N \div M
            bpc == bytesPerChannel(image.dataType)
        IN  \A X \in 0..adapter.targetWidth - 1, Y \in 0..image.height - 1,
              i \in 0..k - 1, j \in 0..M - 1, b \in 0..bpc - 1 :
                X * k + i < image.width =>
                    buf[((Y * adapter.targetWidth + X) * N + i * M + j) * bpc + b + 1]
                        = src[((Y * image.width + X * k + i) * M + j) * bpc + b + 1]

\* targetWidth is ceil(width / k), the smallest integer whose N channels per
\* pixel cover the width * M channels of a source row
IsCeilWidth(tw, width, M, N) ==
    LET k == N \div M
    IN  /\ tw * k >= width /\ (tw - 1) * k < width
        /\ tw * N >= width * M /\ (tw - 1) * N < width * M

\* C3: createFunction sets targetWidth to ceil(sourceWidth / k) for every
\* source width, source channel count M and target channel count N = k*M
\* with k > 1: the smallest integer with targetWidth * N >= sourceWidth * M.
C3_TargetWidth ==
    /\ adapter.state = "ready" =>
        IsCeilWidth(adapter.targetWidth, image.width, image.channels,
                    adapter.targetChannels)
    /\ \A M \in 1..MaxChannels, k \in 2..MaxChannels :
        (image.state = "created" /\ k * M <= MaxChannels) =>
            IsCeilWidth(targetWidthOf(image.width, M, k * M), image.width, M, k * M)

\* C3 witness: an adapter built for a width that k = 4 does not divide
C3_Witness ==
    /\ adapter.state = "ready"
    /\ adapter.targetChannels = 4 * image.channels
    /\ image.width % 4 # 0
    /\ image.width > 4

\* C4: the compaction of an intermediate buffer of height rows with stride
\* bufRowWidth and row width origRowWidth < bufRowWidth writes exactly the
\* height * origRowWidth bytes of the output, output byte r*origRowWidth + c
\* is intermediate byte r*bufRowWidth + c, no byte of a row's padding is
\* read, and the final assert inOffset == buffer size holds.
C4_RowCompaction ==
    \A n \in DOMAIN reads :
        reads[n].compacted =>
            LET r == reads[n]
                orig == adapter.origRowWidth
                stride == adapter.bufRowWidth
                height == adapter.buffer.height
            IN  /\ orig < stride
                /\ r.compactWritten = 0..(height * orig - 1)
                /\ Len(r.out) = height * orig
                /\ \A row \in 0..height - 1, c \in 0..orig - 1 :
                    r.out[row * orig + c + 1] = r.compactIn[row * stride + c + 1]
                /\ \A o \in r.compactRead : o % stride < orig
                /\ Cardinality(r.compactRead) = height * orig
                /\ r.inOffset = imageSize(adapter.buffer)
                /\ ~aborted

\* C4 witness: two rows of distinct bytes compacted
C4_Witness ==
    \E n \in DOMAIN reads :
        /\ reads[n].compacted /\ reads[n].resolved
        /\ adapter.buffer.height = 2
        /\ reads[n].compactIn # Zeros(Len(reads[n].compactIn))
        /\ reads[n].out[1] # reads[n].out[2]

\* The bind and unbind calls of a log are properly nested: every unbind is of
\* the target bound last and not yet unbound, and none stays bound
RECURSIVE Nested(_, _)
Nested(log, stack) ==
    IF log = <<>> THEN stack = <<>>
    ELSE LET e == Head(log)
         IN  CASE e[1] = "bind" -> Nested(Tail(log), <<<<e[2], e[3]>>>> \o stack)
               [] e[1] = "unbind" ->
                    /\ stack # <<>>
                    /\ Head(stack) = <<e[2], e[3]>>
                    /\ Nested(Tail(log), Tail(stack))
               [] OTHER -> Nested(Tail(log), stack)

\* The calls of one invocation of the repack operation
RepackCalls ==
    LET pl == TargetName(adapter.pipeline)
        fb == adapter.buffer.fb.id
    IN  << <<"bind", "pipeline", pl>>, <<"bind", "textureUniform", 0>>,
           <<"bind", "framebuffer", fb>>, <<"draw", "elements", fb>>,
           <<"unbind", "framebuffer", fb>>, <<"unbind", "textureUniform", 0>>,
           <<"unbind", "pipeline", pl>> >>

\* C7: every Binder binds its target once and unbinds it once at scope exit,
\* so the calls of every handler are properly nested; one invocation of the
\* repack operation is pipeline bind, input-texture bind, framebuffer bind,
\* draw, framebuffer unbind, input-texture unbind, pipeline unbind; and no
\* target is left bound when a handler returns.
C7_BinderScopes ==
    /\ Nested(gl.log, <<>>)
    /\ \A n \in DOMAIN reads : reads[n].repackLog = RepackCalls
    /\ gl.program = 0 /\ gl.framebuffer = 0
    /\ \A slot \in TextureSlots : gl.textureAt[slot] = 0
    /\ gl.activeTexture = 0
    /\ gl.arrayBuffer = 0 /\ gl.elementArrayBuffer = 0 /\ ~gl.vertexAttrib

\* C7 witness: an invocation of the repack operation has returned, and the
\* Processor has then run its pull, a handler with a Binder of its own
C7_Witness ==
    /\ Len(reads) = 1
    /\ Len(reads[1].repackLog) = 7
    /\ env.processor = "shared"
    /\ reads[1].resolved
    /\ gl.log = << <<"bind", "framebuffer", adapter.buffer.fb.id>>,
                   <<"unbind", "framebuffer", adapter.buffer.fb.id>> >>

\* C15: an invocation of the read function enqueues exactly one unit of work
\* on the Processor and returns that unit's future when row compaction is
\* needed; it enqueues nothing on the Processor and returns the future of
\* the intermediate image's readRaw when it is not.
C15_EnqueueCount ==
    \A n \in DOMAIN reads :
        IF adapter.hasCpuFunction
        THEN /\ reads[n].enqueued = 1
             /\ reads[n].future = "compact"
             /\ reads[n].resolved <=> reads[n].compacted
        ELSE /\ reads[n].enqueued = 0
             /\ reads[n].future = "readPixels"
             /\ ~reads[n].compacted

\* C15 witness: a read with compaction whose unit the Processor ran later
C15_Witness ==
    /\ reads # <<>>
    /\ adapter.hasCpuFunction
    /\ env.processor = "shared"
    /\ reads[1].enqueued = 1
    /\ reads[1].resolved

\* C16: the "need CPU repacking" warning is logged exactly once for an
\* adapter that needs the host-side repack path, in createReadAdpater, and
\* never again however often the read function is invoked; an adapter that
\* does not need that path never logs it.
C16_WarnOnce ==
    /\ adapter.state = "none" => adapter.warnings = 0
    /\ adapter.state = "ready" =>
        /\ adapter.hasCpuFunction <=> imageSize(adapter.buffer) # imageSize(image)
        /\ adapter.warnings = IF adapter.hasCpuFunction THEN 1 ELSE 0

\* C16 witness: every allowed invocation of the read function of an adapter
\* with the repack path has resolved, and the warning count is still one
C16_Witness ==
    /\ adapter.hasCpuFunction
    /\ Len(reads) = MaxCalls
    /\ \A n \in DOMAIN reads : reads[n].resolved
    /\ adapter.warnings = 1

\* C17: when the image's channel count and element type already are the
\* native target layout of the build, createReadAdpater completes without a
\* fatal assertion, and the read function copies from GPU to host with no
\* channel-repacking pass.
C17_DirectCopy ==
    (/\ image.state = "created"
     /\ targetChannelsOf(env.build, image.channels) = image.channels
     /\ targetDataTypeOf(env.build, image.dataType) = image.dataType) =>
        /\ ~aborted
        /\ \A n \in DOMAIN reads : reads[n].repackLog = <<>>

\* C18: reads through one adapter observe program order: the read function
\* is invoked (R1) on an idle Processor, the image is changed, and the read
\* function is invoked again (R2) before R1's future has resolved; once both
\* futures have resolved R1's buffer holds the image as of R1 and R2's the
\* image as of R2. Stated for a Processor that runs its units in the order
\* enqueued and an intermediate image of one pixel.
C18_ProgramOrder ==
    (/\ env.processor = "shared"
     /\ adapter.targetWidth = 1 /\ image.height = 1
     /\ Len(reads) >= 2
     /\ reads[1].idle /\ reads[2].overlaps
     /\ reads[1].resolved /\ reads[2].resolved) =>
            /\ reads[1].out = reads[1].logical
            /\ reads[2].out = reads[2].logical

\* C19: in the compaction path the compaction unit reads the temporary host
\* buffer only after the pull of the intermediate image into that buffer has
\* completed, for every schedule of the Processor and of an asynchronous
\* readRaw; so the future the caller got resolves only when the output
\* buffer holds the compacted rows of that pull.
C19_PullBeforeCompact ==
    \A n \in DOMAIN reads :
        /\ reads[n].compacted => reads[n].compactAfterPull
        /\ (reads[n].resolved /\ adapter.hasCpuFunction) => reads[n].pulled

\* C20: in every invocation of the read function the repack draw is issued
\* before the pull of the intermediate image is issued; at the draw the
\* pipeline's program is the active program, the output-size uniform is the
\* target framebuffer's (width, height), texture slot 0 holds the input
\* image's texture id, and the target framebuffer is the render target; on
\* the first and on every later invocation of the reused pipeline.
C20_DrawState ==
    \A n \in DOMAIN reads :
        LET d == reads[n].draw
        IN  /\ reads[n].pullAfterDraw
            /\ Cardinality({i \in DOMAIN reads[n].repackLog :
                    reads[n].repackLog[i][1] = "draw"}) = 1
            /\ d.program # 0
            /\ d.program = TargetName(adapter.pipeline)
            /\ d.outSize = <<adapter.buffer.fb.width, adapter.buffer.fb.height>>
            /\ d.outSize = <<adapter.targetWidth, image.height>>
            /\ d.sampler = 0
            /\ d.textureAt[0] = image.fb.texture.id
            /\ d.framebuffer = adapter.buffer.fb.id
            /\ gl.attachment[d.framebuffer] = adapter.buffer.fb.texture.id

\* C20 witness: the pipeline built by the first invocation has drawn again
\* in a second one
C20_Witness ==
    /\ Len(reads) = 2
    /\ reads[1].draw.program = reads[2].draw.program
    /\ reads[2].draw.program # 0
    /\ reads[2].pullAfterDraw
    /\ gl.generated.program = 1

(***************************************************************************)
(* Claims on the wrappers inside an application's context (SpecContext)    *)
(***************************************************************************)
\* the glEnable / glDisable calls on a flag in a call log, in order
FlagCalls(log, flag) ==
    SelectSeq(log, LAMBDA e : e[1] \in {"enable", "disable"} /\ e[2] = flag)

\* the draw, and the glEnable / glDisable calls on a flag, in order
FlagAndDrawCalls(log, flag) ==
    SelectSeq(log, LAMBDA e : e[1] = "draw"
                              \/ (e[1] \in {"enable", "disable"} /\ e[2] = flag))

\* C21: whatever the depth-test and blending flags are before
\* GlslFragmentShader::call, both are disabled when the draw is issued, each
\* has the value it had before once the call has returned, and a flag that
\* was disabled before is neither enabled nor disabled by the call (one that
\* was enabled is disabled once before the draw and enabled once after it).
C21_FlagsRestored ==
    [][scope'.op = "call" =>
        /\ ~gl'.lastDraw.depthTest /\ ~gl'.lastDraw.blend
        /\ \A flag \in GlFlags :
            /\ gl'[flag] = gl[flag]
            /\ ~gl[flag] => FlagCalls(gl'.log, flag) = <<>>
            /\ gl[flag] =>
                /\ Len(FlagAndDrawCalls(gl'.log, flag)) = 3
                /\ FlagAndDrawCalls(gl'.log, flag)[1][1] = "disable"
                /\ FlagAndDrawCalls(gl'.log, flag)[2][1] = "draw"
                /\ FlagAndDrawCalls(gl'.log, flag)[3][1] = "enable"]_vars

\* C21 witness: a call has returned that found both flags enabled, drew with
\* both disabled and enabled both again
C21_Witness ==
    /\ scope.op = "call"
    /\ gl.depthTest /\ gl.blend
    /\ ~gl.lastDraw.depthTest /\ ~gl.lastDraw.blend
    /\ Len(FlagCalls(gl.log, "depthTest")) = 2
    /\ Len(FlagCalls(gl.log, "blend")) = 2

\* C22: after the Binder of a TextureUniformBinder of any texture unit s has
\* unbound, the active texture unit is unit 0 and no texture is bound at s,
\* whatever was active before; so after an invocation of a pipeline with one
\* or more inputs the active unit is 0 and no input's unit has a texture,
\* and no invocation, with inputs or without, moves the active unit off 0.
C22_ActiveSlot ==
    [][/\ scope'.op = "uniform" =>
            /\ gl'.activeTexture = 0
            /\ gl'.textureAt[scope'.input] = 0
       /\ (scope'.op = "invoke" /\ scope'.input > 0) =>
            /\ gl'.activeTexture = 0
            /\ \A s \in 0..(scope'.input - 1) : gl'.textureAt[s] = 0
       /\ (scope'.op = "invoke" /\ gl.activeTexture = 0) =>
            gl'.activeTexture = 0]_vars

\* C22 witness: the Binder of the TextureUniformBinder of unit 1 has bound
\* (the sampler names unit 1) and unbound; unit 0 is active
C22_Witness ==
    /\ scope.op = "uniform"
    /\ scope.input = 1
    /\ gl.sampler = 1
    /\ gl.activeTexture = 0
    /\ gl.textureAt[1] = 0
    /\ \E i \in DOMAIN gl.log :
        gl.log[i] = <<"unbind", "textureUniform", 1>>

\* the operations with a scoped bind of a texture, a frame buffer, a program
ScopesTexture(sc) ==
    \/ sc.op = "binder" /\ sc.kind = "texture"
    \/ sc.op = "writePixels"
    \/ sc.op = "create" /\ sc.kind \in {"texture", "framebuffer"}

ScopesFrameBuffer(sc) ==
    \/ sc.op = "binder" /\ sc.kind = "framebuffer"
    \/ sc.op \in {"readPixels", "call", "invoke"}
    \/ sc.op = "create" /\ sc.kind = "framebuffer"

ScopesProgram(sc) ==
    \/ sc.op = "binder" /\ sc.kind \in {"program", "fragmentShader", "pipeline"}
    \/ sc.op = "invoke"

\* C23: when a Binder scope on a Texture, a FrameBuffer or a GlslProgram has
\* ended (those inside readPixels, writePixels and the constructors too),
\* the texture bound at the active unit, the bound frame buffer and the
\* active program are the objects that were bound before the scope began.
C23_BindingRestored ==
    [][/\ ScopesTexture(scope') =>
            gl'.textureAt[gl.activeTexture] = gl.textureAt[gl.activeTexture]
       /\ ScopesFrameBuffer(scope') => gl'.framebuffer = gl.framebuffer
       /\ ScopesProgram(scope') => gl'.program = gl.program]_vars

====
